---- MODULE Spec2Model ----
(***************************************************************************)
(* bsl::unordered_set (groups/bsl/bslstl/bslstl_unorderedset.h): a set     *)
(* adapter that forwards every operation to a bslstl::HashTable 'd_impl'.  *)
(*                                                                         *)
(* The adapter methods (lower-case names: insert, erase_key, rehash, ...)  *)
(* are translated from the header.  The hash-table engine the adapter      *)
(* calls (names starting with HT_) lives in bslstl_hashtable.h; it is      *)
(* modelled from its design description: separately chained buckets over   *)
(* individually allocated nodes, a global list giving iteration order,     *)
(* and a canonical sequence of bucket-array sizes (powers of two here).    *)
(*                                                                         *)
(* A table is a record                                                     *)
(*   nodes   : live node id -> value held by the node                      *)
(*   list    : the global list, a sequence of node ids (begin() .. end())  *)
(*   buckets : the bucket array, bucket i is buckets[i+1], a chain of ids  *)
(*   size    : the element count                                           *)
(*   mlf     : the maximum load factor, a rational <<num, den>>            *)
(*   alloc   : the allocator the table was created with                    *)
(***************************************************************************)
EXTENDS Integers, Sequences, FiniteSets, TLC

\* ------------------------------------------------------------------ bounds
MaxKey == 2
MaxRehash == 3
MaxReserve == 2
MaxRange == 2
MaxOther == 1

Keys == 1..MaxKey

\* values of 'initialNumBuckets' the set is constructed with
InitialBuckets == {0, 4}

\* values of 'max_load_factor' a caller sets: 0.5, 1.0, 2.0
LoadFactors == {<<1, 2>>, <<1, 1>>, <<2, 1>>}

\* the null link: iterator() == end()
End == 0

\* ------------------------------------------------- hash-table engine (HT_)
\* bsl::hash<int>
Hash(k) == k

DefaultMaxLoadFactor == <<1, 1>>

\* an allocator: which memory source it is, and what its type's traits
\* propagate_on_container_copy_assignment and propagate_on_container_swap
\* say; allocator_type() is bsl::allocator on the default memory source
DefaultAllocator == [id |-> 0, pocca |-> FALSE, pocs |-> FALSE]

\* size / numBuckets > maxLoadFactor, on rationals
Overfull(sz, nb, f) == sz * f[2] > nb * f[1]

RECURSIVE NextGoodFrom(_, _)
NextGoodFrom(c, n) == IF c >= n THEN c ELSE NextGoodFrom(2 * c, n)

\* the canonical size sequence 1, 2, 4, 8, ...: smallest member >= n
NextGood(n) == NextGoodFrom(1, n)

RECURSIVE MinBucketsFrom(_, _, _)
MinBucketsFrom(c, m, f) ==
    IF ~Overfull(m, c, f) THEN c ELSE MinBucketsFrom(2 * c, m, f)

\* smallest canonical bucket count holding m elements within load factor f
MinBucketsFor(m, f) == MinBucketsFrom(1, m, f)

HT_numBuckets(t) == Len(t.buckets)

HT_bucketIndexForKey(t, k) == Hash(k) % HT_numBuckets(t)

HT_bucketAtIndex(t, i) == t.buckets[i + 1]

RECURSIVE FirstMatch(_, _, _)
\* scan a chain for the first node whose value equals k
FirstMatch(chain, nodes, k) ==
    IF chain = <<>> THEN End
    ELSE IF nodes[Head(chain)] = k THEN Head(chain)
    ELSE FirstMatch(Tail(chain), nodes, k)

HT_find(t, k) ==
    FirstMatch(HT_bucketAtIndex(t, HT_bucketIndexForKey(t, k)), t.nodes, k)

HT_create(initialNumBuckets, f, alloc) ==
    [nodes   |-> << >>,
     list    |-> << >>,
     buckets |-> [i \in 1..NextGood(initialNumBuckets) |-> << >>],
     size    |-> 0,
     mlf     |-> f,
     alloc   |-> alloc]

RECURSIVE Relink(_, _, _, _)
\* walk the global list once, pushing every node onto its new chain
Relink(list, nodes, nb, acc) ==
    IF list = <<>> THEN acc
    ELSE LET n == Head(list)
             b == (Hash(nodes[n]) % nb) + 1
         IN  Relink(Tail(list), nodes, nb,
                    [acc EXCEPT ![b] = <<n>> \o acc[b]])

\* replace the bucket array by one of exactly nb buckets
HT_rehashInto(t, nb) ==
    [t EXCEPT !.buckets = Relink(t.list, t.nodes, nb,
                                 [i \in 1..nb |-> << >>])]

HT_rehashForNumBuckets(t, n) ==
    IF Overfull(t.size, n, t.mlf) THEN t
    ELSE HT_rehashInto(t, NextGood(n))

\* the node store hands out the lowest free node
NewNode(t) ==
    CHOOSE i \in 1..(Cardinality(DOMAIN t.nodes) + 1) :
        /\ i \notin DOMAIN t.nodes
        /\ \A j \in 1..(i - 1) : j \in DOMAIN t.nodes

\* the 'not found' branch of insertIfMissing: grow if needed, then link a
\* new node at the head of its chain and at the tail of the global list
HT_insertNew(t, v) ==
    LET g  == IF Overfull(t.size + 1, HT_numBuckets(t), t.mlf)
              THEN HT_rehashInto(t, MinBucketsFor(t.size + 1, t.mlf))
              ELSE t
        id == NewNode(g)
        b  == HT_bucketIndexForKey(g, v) + 1
    IN  [t        |-> [g EXCEPT !.nodes   = g.nodes @@ (id :> v),
                                !.list    = Append(g.list, id),
                                !.buckets = [g.buckets EXCEPT
                                               ![b] = <<id>> \o g.buckets[b]],
                                !.size    = g.size + 1],
         node     |-> id,
         inserted |-> TRUE]

HT_insertIfMissing(t, v) ==
    LET found == HT_find(t, v)
    IN  IF found # End
        THEN [t |-> t, node |-> found, inserted |-> FALSE]
        ELSE HT_insertNew(t, v)

\* allocations a call can see fail: the new bucket array, the new node
Allocations == {"array", "node"}

\* insertIfMissing when the allocation 'failing' fails, if the call comes
\* to it: the bucket array is grown first, the node is allocated after
HT_insertIfMissingFailing(t, v, failing) ==
    LET grows == Overfull(t.size + 1, HT_numBuckets(t), t.mlf)
        g     == IF grows
                 THEN HT_rehashInto(t, MinBucketsFor(t.size + 1, t.mlf))
                 ELSE t
    IN  IF HT_find(t, v) # End THEN [t |-> t, failed |-> FALSE]
        ELSE IF grows /\ failing = "array" THEN [t |-> t, failed |-> TRUE]
        ELSE IF failing = "node" THEN [t |-> g, failed |-> TRUE]
        ELSE [t |-> HT_insertNew(t, v).t, failed |-> FALSE]

\* rehashForNumBuckets when the allocation of the new bucket array fails
HT_rehashForNumBucketsFailing(t, n) ==
    IF Overfull(t.size, n, t.mlf) THEN [t |-> t, failed |-> FALSE]
    ELSE [t |-> t, failed |-> TRUE]

RECURSIVE IndexOf(_, _, _)
IndexOf(s, x, i) ==
    IF i > Len(s) THEN 0 ELSE IF s[i] = x THEN i ELSE IndexOf(s, x, i + 1)

\* the node following 'node' in the global list, or End
Successor(t, node) ==
    LET i == IndexOf(t.list, node, 1)
    IN  IF i = 0 \/ i = Len(t.list) THEN End ELSE t.list[i + 1]

Without(s, x) == SelectSeq(s, LAMBDA y : y # x)

HT_remove(t, node) ==
    LET b == HT_bucketIndexForKey(t, t.nodes[node]) + 1
    IN  [t   |-> [t EXCEPT !.nodes   = [i \in DOMAIN t.nodes \ {node}
                                          |-> t.nodes[i]],
                           !.list    = Without(t.list, node),
                           !.buckets = [t.buckets EXCEPT
                                          ![b] = Without(t.buckets[b], node)],
                           !.size    = t.size - 1],
         ret |-> Successor(t, node)]

HT_removeAll(t) ==
    [t EXCEPT !.nodes   = << >>,
              !.list    = << >>,
              !.buckets = [i \in 1..HT_numBuckets(t) |-> << >>],
              !.size    = 0]

HT_setMaxLoadFactor(t, f) ==
    LET s == [t EXCEPT !.mlf = f]
    IN  IF Overfull(s.size, HT_numBuckets(s), f)
        THEN HT_rehashInto(s, MinBucketsFor(s.size, f))
        ELSE s

\* 'reserve' only ever increases the number of buckets: nothing is done
\* when the bucket array already holds n elements within the load factor
HT_reserveForNumElements(t, n) ==
    IF n <= t.size THEN t
    ELSE IF MinBucketsFor(n, t.mlf) <= HT_numBuckets(t) THEN t
    ELSE HT_rehashForNumBuckets(t, MinBucketsFor(n, t.mlf))

\* the bucket array, the list, the size and the parameters change sides;
\* the allocators do only when the allocator type propagates on swap
HT_swap(x, y) ==
    IF x.alloc.pocs
    THEN [this |-> y, other |-> x]
    ELSE [this  |-> [y EXCEPT !.alloc = x.alloc],
          other |-> [x EXCEPT !.alloc = y.alloc]]

RECURSIVE CopyEach(_, _, _)
\* walk the original's global list, linking a copy of each node's value
CopyEach(t, nodes, list) ==
    IF list = <<>> THEN t
    ELSE CopyEach(HT_insertNew(t, nodes[Head(list)]).t, nodes, Tail(list))

\* HashTable(original, allocator): a table of its own nodes holding the
\* original's values in the original's order, under its max load factor
HT_copy(original, alloc) ==
    CopyEach(HT_create(0, original.mlf, alloc), original.nodes, original.list)

\* IteratorUtil::insertDistance for a forward range: its length
InsertDistance(vals) == Len(vals)

\* ------------------------------------------------ unordered_set (adapter)
\* unordered_set(initialNumBuckets, hashFunction, keyEqual, basicAllocator)
construct_alloc(initialNumBuckets, basicAllocator) ==
    HT_create(initialNumBuckets, DefaultMaxLoadFactor, basicAllocator)

\* the same with 'basicAllocator' left to its default, allocator_type()
construct(initialNumBuckets) ==
    construct_alloc(initialNumBuckets, DefaultAllocator)

get_allocator(t) == t.alloc

begin(t) == IF t.list = <<>> THEN End ELSE Head(t.list)

end == End

size(t) == t.size

empty(t) == 0 = t.size

bucket_count(t) == HT_numBuckets(t)

bucket(t, key) == HT_bucketIndexForKey(t, key)

bucket_size(t, index) == Len(HT_bucketAtIndex(t, index))

\* begin(index) .. end(index): the nodes met in bucket 'index'
local_range(t, index) == HT_bucketAtIndex(t, index)

max_load_factor(t) == t.mlf

find(t, key) == HT_find(t, key)

\* slip: the length of the key's bucket, as for unordered_multiset ranges
count_chain(t, key) == bucket_size(t, bucket(t, key))

count(t, key) == IF End # HT_find(t, key) THEN 1 ELSE 0

equal_range(t, key) ==
    LET first == find(t, key)
    IN  IF first = end THEN <<first, first>>
        ELSE <<first, Successor(t, first)>>

\* slip: the list and the count are reset, the bucket chains are left
clear_listOnly(t) == [t EXCEPT !.list = << >>, !.size = 0]

clear(t) == HT_removeAll(t)

\* slip: links a new node without looking for an equal key (the
\* unordered_multiset body)
insert_dup(t, value) ==
    LET r == HT_insertNew(t, value)
    IN  [t |-> r.t, first |-> r.node, second |-> r.inserted]

\* slip: 'isInsertedFlag' is returned as initialised, not as set
insert_flagLost(t, value) ==
    LET r == HT_insertIfMissing(t, value)
    IN  [t |-> r.t, first |-> r.node, second |-> FALSE]

\* slip: reserves room for the value before looking for it
insert_reserving(t, value) ==
    LET r == HT_insertIfMissing(
                 HT_reserveForNumElements(t, t.size + 1), value)
    IN  [t |-> r.t, first |-> r.node, second |-> r.inserted]

\* slip: the new node is linked at the head of the global list
insert_atFront(t, value) ==
    LET r == HT_insertIfMissing(t, value)
    IN  [t |-> IF r.inserted
               THEN [r.t EXCEPT !.list = <<r.node>> \o Without(r.t.list, r.node)]
               ELSE r.t,
         first |-> r.node, second |-> r.inserted]

insert(t, value) ==
    LET r == HT_insertIfMissing(t, value)
    IN  [t |-> r.t, first |-> r.node, second |-> r.inserted]

\* slip: a new element is linked in front of the hint
insert_hint_placed(t, hint, value) ==
    LET r == insert(t, value)
        i == IndexOf(t.list, hint, 1)
    IN  [t   |-> IF r.second /\ i # 0
                 THEN [r.t EXCEPT !.list = SubSeq(t.list, 1, i - 1) \o
                                           <<r.first>> \o
                                           SubSeq(t.list, i, Len(t.list))]
                 ELSE r.t,
         ret |-> r.first]

\* insert(value) when an allocation fails: the failure passes through
insert_failing(t, value, failing) ==
    HT_insertIfMissingFailing(t, value, failing)

\* the hint is not looked at
insert_hint(t, hint, value) ==
    LET r == insert(t, value) IN [t |-> r.t, ret |-> r.first]

RECURSIVE InsertEach(_, _)
\* while (first != last) { d_impl.insertIfMissing(&flag, *first); ++first; }
InsertEach(t, vals) ==
    IF vals = <<>> THEN t
    ELSE InsertEach(HT_insertIfMissing(t, Head(vals)).t, Tail(vals))

\* slip: forwards to the bucket-count entry point
reserve_asRehash(t, numElements) == HT_rehashForNumBuckets(t, numElements)

reserve(t, numElements) == HT_reserveForNumElements(t, numElements)

RECURSIVE LinkEach(_, _)
LinkEach(t, vals) ==
    IF vals = <<>> THEN t
    ELSE LinkEach(HT_insertNew(t, Head(vals)).t, Tail(vals))

\* slip: every value is linked without looking for an equal key (the
\* unordered_multiset body)
insert_range_multi(t, vals) ==
    LET maxInsertions == InsertDistance(vals)
        r == IF maxInsertions # 0
             THEN reserve(t, size(t) + maxInsertions)
             ELSE t
    IN  LinkEach(r, vals)

\* slip: the reservation is left out
insert_range_noReserve(t, vals) == InsertEach(t, vals)

\* slip: the loop stops one short of 'last'
insert_range_dropLast(t, vals) ==
    LET maxInsertions == InsertDistance(vals)
        r == IF maxInsertions # 0
             THEN reserve(t, size(t) + maxInsertions)
             ELSE t
    IN  InsertEach(r, SubSeq(vals, 1, Len(vals) - 1))

insert_range(t, vals) ==
    LET maxInsertions == InsertDistance(vals)
        r == IF maxInsertions # 0
             THEN reserve(t, size(t) + maxInsertions)
             ELSE t
    IN  InsertEach(r, vals)

\* unordered_set(first, last, initialNumBuckets, ...)
construct_range(vals, initialNumBuckets) ==
    insert_range(construct(initialNumBuckets), vals)

\* build modes (none of them SAFE_2): BSLS_ASSERT_SAFE is compiled in safe
\* builds only, BSLS_ASSERT in safe and debug builds, neither in optimised
\* builds
Builds == {"safe", "debug", "opt"}

\* slip: the iterator returned is begin() of the set after the removal
erase_pos_retBegin(t, position) ==
    LET r == HT_remove(t, position) IN [t |-> r.t, ret |-> begin(r.t)]

erase_pos(t, position) == HT_remove(t, position)

\* slip: reports the removal without performing it
erase_key_noRemove(t, key) ==
    LET target == HT_find(t, key)
    IN  IF target # End THEN [t |-> t, ret |-> 1] ELSE [t |-> t, ret |-> 0]

\* slip: both branches return 1
erase_key_always1(t, key) ==
    LET target == HT_find(t, key)
    IN  IF target # End
        THEN [t |-> HT_remove(t, target).t, ret |-> 1]
        ELSE [t |-> t, ret |-> 1]

erase_key(t, key) ==
    LET target == HT_find(t, key)
    IN  IF target # End
        THEN [t |-> HT_remove(t, target).t, ret |-> 1]
        ELSE [t |-> t, ret |-> 0]

\* slip: 'if' for 'while', one element is erased at most
erase_range_once(t, first, last) ==
    IF first = last THEN [t |-> t, ret |-> first] ELSE erase_pos(t, first)

RECURSIVE erase_range(_, _, _)
\* while (first != last) { first = this->erase(first); }
erase_range(t, first, last) ==
    IF first = last THEN [t |-> t, ret |-> first]
    ELSE LET r == erase_pos(t, first)
         IN  erase_range(r.t, r.ret, last)

\* slip: max_load_factor(f) re-inserts the values into a new table
max_load_factor_rebuild(t, newLoadFactor) ==
    CopyEach(HT_create(bucket_count(t), newLoadFactor, t.alloc),
             t.nodes, t.list)

\* erase(position) as a build runs it: "ok" with the set and the iterator
\* returned, "assert" when BSLS_ASSERT(position != end()) fails,
\* "undefined" when the engine is handed the null node of end()
erase_pos_in(build, t, position) ==
    IF position # end
    THEN [t |-> erase_pos(t, position).t,
          ret |-> erase_pos(t, position).ret,
          status |-> "ok"]
    ELSE [t |-> t, ret |-> position,
          status |-> IF build \in {"safe", "debug"} THEN "assert"
                     ELSE "undefined"]

RECURSIVE erase_range_in_guarded(_, _, _, _)
\* slip: the loop also stops at end()
erase_range_in_guarded(build, t, first, last) ==
    IF first = last \/ first = end THEN [t |-> t, ret |-> first, status |-> "ok"]
    ELSE LET r == erase_pos_in(build, t, first)
         IN  erase_range_in_guarded(build, r.t, r.ret, last)

RECURSIVE erase_range_in(_, _, _, _)
\* erase(first, last) as a build runs it, for any two positions
erase_range_in(build, t, first, last) ==
    IF first = last THEN [t |-> t, ret |-> first, status |-> "ok"]
    ELSE LET r == erase_pos_in(build, t, first)
         IN  IF r.status # "ok" THEN r
             ELSE erase_range_in(build, r.t, r.ret, last)

\* slip: records the factor without having the table honour it
max_load_factor_storeOnly(t, newLoadFactor) ==
    [t EXCEPT !.mlf = newLoadFactor]

max_load_factor_set(t, newLoadFactor) ==
    HT_setMaxLoadFactor(t, newLoadFactor)

\* slip: forwards to the element-count entry point
rehash_asReserve(t, numBuckets) == HT_reserveForNumElements(t, numBuckets)

\* slip: a request below what the load factor allows is raised to it
rehash_clamped(t, numBuckets) ==
    LET least == MinBucketsFor(t.size, t.mlf)
    IN  HT_rehashForNumBuckets(
            t, IF numBuckets < least THEN least ELSE numBuckets)

\* slip: calls the engine's unchecked re-bucketing helper
rehash_unchecked(t, numBuckets) == HT_rehashInto(t, NextGood(numBuckets))

\* slip: the new bucket array takes the old chains over as they are
rehash_keepChains(t, numBuckets) ==
    IF Overfull(t.size, numBuckets, t.mlf) THEN t
    ELSE [t EXCEPT !.buckets =
              [i \in 1..NextGood(numBuckets) |->
                   IF i <= Len(t.buckets) THEN t.buckets[i] ELSE << >>]]

\* slip: the bucket array gets exactly the size asked for
rehash_exact(t, numBuckets) ==
    IF Overfull(t.size, numBuckets, t.mlf) THEN t
    ELSE HT_rehashInto(t, numBuckets)

rehash(t, numBuckets) == HT_rehashForNumBuckets(t, numBuckets)

\* slip: 'other' is copied into this set and left as it was
swap_oneWay(t, other) == [this |-> other, other |-> other]

\* rehash(numBuckets) when the allocation fails: the failure passes through
rehash_failing(t, numBuckets) == HT_rehashForNumBucketsFailing(t, numBuckets)

swap(t, other) == HT_swap(t, other)


\* swap as a build runs it: "ok" with the sets as left, "assert" when
\* BSLS_ASSERT_SAFE fails, "undefined" when the engine is handed
\* unequal allocators that do not propagate
swap_in(build, t, other) ==
    IF build = "safe" /\ get_allocator(t) # get_allocator(other)
    THEN [this |-> t, other |-> other, status |-> "assert"]
    ELSE IF get_allocator(t) # get_allocator(other) /\ ~get_allocator(t).pocs
    THEN [this |-> t, other |-> other, status |-> "undefined"]
    ELSE [this   |-> swap(t, other).this,
          other  |-> swap(t, other).other,
          status |-> "ok"]

\* HashTable operator==: same size, and every element of the left table
\* has an equal element in the right one
HT_equal(x, y) ==
    /\ x.size = y.size
    /\ \A n \in DOMAIN x.nodes : HT_find(y, x.nodes[n]) # End

\* unordered_set(original, basicAllocator)
copy_construct(original, basicAllocator) == HT_copy(original, basicAllocator)

\* slip: the copy is made and dropped, the swap is missing
operator_assign_noSwap(t, rhs) ==
    LET tmp == copy_construct(rhs, get_allocator(t)) IN t

\* unordered_set(rhs, get_allocator()).swap(*this); return *this;
operator_assign(t, rhs) ==
    LET tmp == copy_construct(rhs, get_allocator(t)) IN swap(tmp, t).other

\* slip: compares the two sequences begin()..end() position by position
operator_eq_inOrder(lhs, rhs) ==
    /\ lhs.size = rhs.size
    /\ \A i \in 1..Len(lhs.list) :
           i <= Len(rhs.list) /\ lhs.nodes[lhs.list[i]] = rhs.nodes[rhs.list[i]]

operator_eq(lhs, rhs) == HT_equal(lhs, rhs)

operator_ne(lhs, rhs) == ~operator_eq(lhs, rhs)

\* ------------------------------------------------------------ observations
\* the values held, in iteration order
Values(t) == [i \in 1..Len(t.list) |-> t.nodes[t.list[i]]]

\* the set of values held
Elements(t) == {t.nodes[n] : n \in DOMAIN t.nodes}

\* positions a caller can hold: the elements in list order, then end()
Positions(t) == [i \in 1..(Len(t.list) + 1) |->
                   IF i <= Len(t.list) THEN t.list[i] ELSE End]

\* values a range handed to insert(first, last) is made of
RangeKeys == {1, 2}

Ranges == UNION {[1..n -> RangeKeys] : n \in 0..MaxRange}

\* sets another thread of control may have built, to swap with
OtherSets == {construct_range(vals, 0) :
                  vals \in UNION {[1..n -> RangeKeys] : n \in 0..MaxOther}}

\* ------------------------------------------------------------------ state
VARIABLES
    a,         \* the unordered_set object (its d_impl)
    last,      \* the call that produced 'a': name, arguments, result
    reserved   \* n of a reserve(n) followed by single insertions only, or 0

vars == <<a, last, reserved>>

Call(op, k, f, vals, ret, second) ==
    [op |-> op, k |-> k, f |-> f, vals |-> vals, ret |-> ret,
     second |-> second]

NoF == <<0, 1>>

Init ==
    /\ \E n \in InitialBuckets : a = construct(n)
    /\ last = Call("construct", 0, NoF, <<>>, End, FALSE)
    /\ reserved = 0

\* a reservation is spent once size() has passed it
StillReserved(t) == IF size(t) > reserved THEN 0 ELSE reserved

Insert ==
    \E v \in Keys :
        LET r == insert(a, v)
        IN  /\ a' = r.t
            /\ last' = Call("insert", v, NoF, <<>>, r.first, r.second)
            /\ reserved' = StillReserved(r.t)

InsertHint ==
    \E v \in Keys, hint \in {begin(a), end} :
        LET r == insert_hint(a, hint, v)
        IN  /\ a' = r.t
            /\ last' = Call("insert_hint", v, NoF, <<>>, r.ret, FALSE)
            /\ reserved' = StillReserved(r.t)

InsertRange ==
    \E vals \in Ranges :
        /\ a' = insert_range(a, vals)
        /\ last' = Call("insert_range", 0, NoF, vals, End, FALSE)
        /\ reserved' = StillReserved(a')

EraseKey ==
    \E k \in Keys :
        LET r == erase_key(a, k)
        IN  /\ a' = r.t
            /\ last' = Call("erase_key", k, NoF, <<>>, r.ret, FALSE)
            /\ reserved' = 0

ErasePos ==
    \E i \in 1..Len(a.list) :
        LET r == erase_pos(a, a.list[i])
        IN  /\ a' = r.t
            /\ last' = Call("erase_pos", a.nodes[a.list[i]], NoF, <<>>,
                            r.ret, FALSE)
            /\ reserved' = 0

EraseRange ==
    \E i \in 1..(Len(a.list) + 1) :
        \E j \in i..(Len(a.list) + 1) :
            LET r == erase_range(a, Positions(a)[i], Positions(a)[j])
            IN  /\ a' = r.t
                /\ last' = Call("erase_range", j - i, NoF,
                                SubSeq(Values(a), i, j - 1), r.ret, FALSE)
                /\ reserved' = 0

Clear ==
    /\ a' = clear(a)
    /\ last' = Call("clear", 0, NoF, <<>>, End, FALSE)
    /\ reserved' = 0

MaxLoadFactor ==
    \E f \in LoadFactors :
        /\ a' = max_load_factor_set(a, f)
        /\ last' = Call("max_load_factor", 0, f, <<>>, End, FALSE)
        /\ reserved' = 0

Rehash ==
    \E n \in 0..MaxRehash :
        /\ a' = rehash(a, n)
        /\ last' = Call("rehash", n, NoF, <<>>, End, FALSE)
        /\ reserved' = 0

Reserve ==
    \E n \in 0..MaxReserve :
        /\ a' = reserve(a, n)
        /\ last' = Call("reserve", n, NoF, <<>>, End, FALSE)
        /\ reserved' = IF n > size(a) THEN n ELSE 0

Swap ==
    \E o \in OtherSets :
        /\ a' = swap(a, o).this
        /\ last' = Call("swap", 0, NoF, <<>>, End, FALSE)
        /\ reserved' = 0

\* a = o for another set o, and the self-assignment a = a
Assign ==
    \E o \in OtherSets \cup {a} :
        /\ a' = operator_assign(a, o)
        /\ last' = Call("operator=", size(o), NoF, <<>>, End, o = a)
        /\ reserved' = 0

Next ==
    \/ Insert
    \/ InsertHint
    \/ InsertRange
    \/ EraseKey
    \/ ErasePos
    \/ EraseRange
    \/ Clear
    \/ MaxLoadFactor
    \/ Rehash
    \/ Reserve
    \/ Swap
    \/ Assign

Spec == Init /\ [][Next]_vars

TypeOK ==
    /\ a.size \in Nat
    /\ a.mlf \in LoadFactors
    /\ reserved \in 0..MaxReserve

\* ------------------------------------- allocators, builds, failing calls
\* memory sources a set is created with
AllocatorIds == {1, 2}

Allocators ==
    {[id |-> i, pocca |-> p, pocs |-> s] :
         i \in AllocatorIds, p \in BOOLEAN, s \in BOOLEAN}

\* what the other set of an assignment or swap holds
OtherContents == {<<>>, <<1>>, <<2, 1>>}

\* the sets of the same allocator type as t, on either memory source
OthersOf(t) ==
    {insert_range(construct_alloc(0, [get_allocator(t) EXCEPT !.id = i]), vals) :
         i \in AllocatorIds, vals \in OtherContents}

\* a set constructed on the first memory source (the sources are
\* interchangeable; the other set of a call is on either), with an
\* allocator type of either value of each trait
InitEnv ==
    /\ \E n \in InitialBuckets, al \in {x \in Allocators : x.id = 1} :
           a = construct_alloc(n, al)
    /\ last = Call("construct", 0, NoF, <<>>, End, FALSE)
    /\ reserved = 0

\* a = o; k is the memory source of o's allocator
AssignAlloc ==
    \E o \in OthersOf(a) :
        /\ a' = operator_assign(a, o)
        /\ last' = Call("operator=", get_allocator(o).id, NoF, Values(o),
                        End, FALSE)
        /\ reserved' = 0

\* a.swap(o) in some build; k is the memory source of o's allocator, the
\* name of the call tells how it ended
SwapAlloc ==
    \E o \in OthersOf(a), build \in Builds :
        LET r == swap_in(build, a, o)
        IN  /\ a' = r.this
            /\ last' = Call(IF r.status = "ok" THEN "swap"
                            ELSE IF r.status = "assert" THEN "swap_assert"
                            ELSE "swap_undefined",
                            get_allocator(o).id, NoF, Values(o), End, FALSE)
            /\ reserved' = 0

\* insert(v) that reports an allocation failure
InsertFails ==
    \E v \in Keys, failing \in Allocations :
        LET r == insert_failing(a, v, failing)
        IN  /\ r.failed
            /\ a' = r.t
            /\ last' = Call("insert_failed", v, NoF, <<failing>>, End, FALSE)
            /\ reserved' = 0

\* rehash(n) that reports an allocation failure
RehashFails ==
    \E n \in 0..MaxRehash :
        LET r == rehash_failing(a, n)
        IN  /\ r.failed
            /\ a' = r.t
            /\ last' = Call("rehash_failed", n, NoF, <<"array">>, End, FALSE)
            /\ reserved' = 0

\* the name a call is recorded under, by how it ended
Ended(op, status) ==
    IF status = "ok" THEN op
    ELSE IF status = "assert" THEN op \o "_assert"
    ELSE op \o "_undefined"

\* erase(position) for any position of the set, end() too, in some build;
\* f is the place of the position, vals the build
ErasePosIn ==
    \E build \in Builds, i \in 1..(Len(a.list) + 1) :
        LET r == erase_pos_in(build, a, Positions(a)[i])
        IN  /\ a' = r.t
            /\ last' = Call(Ended("erase_pos", r.status), size(a) - size(r.t),
                            <<i, i>>, <<build>>, r.ret, FALSE)
            /\ reserved' = 0

\* erase(first, last) for any two positions of the set, in either order,
\* in some build; f is the places of the two, k the removals made
EraseRangeIn ==
    \E build \in Builds, i \in 1..(Len(a.list) + 1), j \in 1..(Len(a.list) + 1) :
        LET r == erase_range_in(build, a, Positions(a)[i], Positions(a)[j])
        IN  /\ a' = r.t
            /\ last' = Call(Ended("erase_range", r.status),
                            size(a) - size(r.t), <<i, j>>, <<build>>, r.ret,
                            FALSE)
            /\ reserved' = 0

NextEnv ==
    \/ Insert
    \/ EraseKey
    \/ AssignAlloc
    \/ SwapAlloc
    \/ InsertFails
    \/ RehashFails
    \/ ErasePosIn
    \/ EraseRangeIn

SpecEnv == InitEnv /\ [][NextEnv]_vars

\* ------------------------------------------------------------- properties
InsertOps == {"insert", "insert_hint", "insert_range"}

\* size() <= bucket_count() * max_load_factor()
WithinLoad(t) == ~Overfull(size(t), bucket_count(t), max_load_factor(t))

\* C1: whatever calls were made, no two elements met on the way from
\* begin() to end() hold equal keys.
C1_Uniqueness ==
    /\ Len(a.list) = size(a)
    /\ \A i, j \in 1..Len(a.list) :
           Values(a)[i] = Values(a)[j] => i = j

C1_Witness ==
    /\ last.op = "insert"
    /\ ~last.second
    /\ size(a) = 2

\* C2: insert(value) reports second = TRUE exactly when the key was absent
\* before the call, first designates the element holding the key, and
\* afterwards count(value) = 1 and size() grew by 1 or by 0 accordingly.
C2_InsertResult ==
    [][last'.op = "insert" =>
          LET v == last'.k
          IN  /\ last'.second <=> (v \notin Elements(a))
              /\ last'.ret \in DOMAIN a'.nodes
              /\ a'.nodes[last'.ret] = v
              /\ last'.ret = find(a', v)
              /\ count(a', v) = 1
              /\ size(a') = size(a) + (IF last'.second THEN 1 ELSE 0)]_vars

C2_Witness ==
    /\ last.op = "insert"
    /\ last.second
    /\ size(a) = 2
    /\ find(a, last.k) = last.ret

\* C3: insert of a key already present changes nothing at all (size, nodes,
\* iteration order, bucket array) and returns the node that already held
\* the key, also when the set is exactly at its maximum load.
C3_ReinsertNoEffect ==
    [][(last'.op = "insert" /\ last'.k \in Elements(a)) =>
          /\ a' = a
          /\ ~last'.second
          /\ last'.ret = find(a, last'.k)
          /\ a.nodes[last'.ret] = last'.k]_vars

C3_Witness ==
    /\ last.op = "insert"
    /\ ~last.second
    /\ size(a) > 0
    /\ size(a) * max_load_factor(a)[2]
           = bucket_count(a) * max_load_factor(a)[1]

\* C4: after every insert (single, hinted or range) the set is within its
\* maximum load factor, and an insertion that would have overfilled the
\* old bucket array has grown it within the same call.
C4_LoadFactor ==
    [][last'.op \in InsertOps =>
          /\ WithinLoad(a')
          /\ (/\ size(a') > size(a)
              /\ Overfull(size(a'), bucket_count(a), max_load_factor(a)))
                 => bucket_count(a') > bucket_count(a)]_vars

C4_Witness ==
    /\ last.op \in InsertOps
    /\ size(a) = 2
    /\ bucket_count(a) = 2
    /\ max_load_factor(a) = <<1, 1>>

\* the call c inserts key k
InsertsKey(c, k) ==
    \/ c.op \in {"insert", "insert_hint"} /\ c.k = k
    \/ c.op = "insert_range" /\ \E i \in 1..Len(c.vals) : c.vals[i] = k

\* calls that replace the whole contents of the set
ReplaceOps == {"swap", "operator="}

Absent(t, k) == find(t, k) = end /\ count(t, k) = 0

\* C5 (as stated): once erase(k) has returned, find(k) = end() and
\* count(k) = 0, and the call that follows erase(k) leaves it so unless it
\* inserts k.
C5_AbsentUntilInserted ==
    [][/\ last'.op = "erase_key" => Absent(a', last'.k)
       /\ (last.op = "erase_key" /\ ~InsertsKey(last', last.k))
             => Absent(a', last.k)]_vars

\* C5 (amended): once erase(k) has returned, find(k) = end() and
\* count(k) = 0; a key that is absent stays absent across every call that
\* neither inserts it nor replaces the contents of the set.  (erase(k) of
\* an absent key has no effect, so every state in which k is absent is a
\* state after erase(k).)
C5_AbsentUntilInsertedOrReplaced ==
    [][/\ last'.op = "erase_key" => Absent(a', last'.k)
       /\ \A k \in Keys :
             (/\ Absent(a, k)
              /\ ~InsertsKey(last', k)
              /\ last'.op \notin ReplaceOps) => Absent(a', k)]_vars

C5_Witness ==
    /\ last.op = "erase_key"
    /\ last.ret = 1
    /\ Absent(a, last.k)
    /\ size(a) = 1

\* C6: erase(key) of a key that is present returns 1, removes that element
\* and no other; erase(key) of a key that is absent returns 0 and leaves the
\* whole table as it was.
C6_EraseKey ==
    [][last'.op = "erase_key" =>
          IF last'.k \in Elements(a)
          THEN /\ last'.ret = 1
               /\ size(a') = size(a) - 1
               /\ Elements(a') = Elements(a) \ {last'.k}
               /\ Values(a') = Without(Values(a), last'.k)
               /\ \A n \in DOMAIN a'.nodes :
                      n \in DOMAIN a.nodes /\ a'.nodes[n] = a.nodes[n]
          ELSE /\ last'.ret = 0
               /\ a' = a]_vars

C6_Witness ==
    /\ last.op = "erase_key"
    /\ last.ret = 1
    /\ size(a) = 1
    /\ bucket_count(a) = 1

\* every element sits in the chain of the bucket its hash selects
InOwnBuckets(t) ==
    \A n \in DOMAIN t.nodes :
        \E i \in 1..bucket_size(t, bucket(t, t.nodes[n])) :
            HT_bucketAtIndex(t, bucket(t, t.nodes[n]))[i] = n

\* what rehash(n) keeps: size, the nodes and their values, iteration order
RehashKeeps ==
    /\ size(a') = size(a)
    /\ a'.nodes = a.nodes
    /\ Elements(a') = Elements(a)
    /\ a'.list = a.list
    /\ Values(a') = Values(a)
    /\ InOwnBuckets(a')

AdmissibleRehash ==
    /\ last'.op = "rehash"
    /\ ~Overfull(size(a), last'.k, max_load_factor(a))

\* C7 (as stated): rehash(n) with n within the load-factor constraint
\* changes bucket_count(), to a value accommodating n, and keeps size,
\* elements and iteration order.
C7_RehashChangesCount ==
    [][AdmissibleRehash =>
          /\ bucket_count(a') # bucket_count(a)
          /\ bucket_count(a') >= last'.k
          /\ RehashKeeps]_vars

\* C7 (amended): rehash(n) with n within the load-factor constraint sets
\* bucket_count() to a value accommodating n - a different value whenever
\* the old count was below n, possibly the same value otherwise - and keeps
\* size, elements and iteration order, every element being in the bucket
\* its hash selects.
C7_RehashSetsCount ==
    [][AdmissibleRehash =>
          /\ bucket_count(a') >= last'.k
          /\ bucket_count(a') >= 1
          /\ bucket_count(a) < last'.k => bucket_count(a') # bucket_count(a)
          /\ RehashKeeps]_vars

C7_Witness ==
    /\ last.op = "rehash"
    /\ last.k >= 1
    /\ ~Overfull(size(a), last.k, max_load_factor(a))
    /\ bucket_count(a) >= last.k
    /\ size(a) = 2

\* C8: rehash(n) with n too small for the elements held changes nothing,
\* and no rehash leaves the set above its maximum load factor.
C8_RehashNoOp ==
    [][last'.op = "rehash" =>
          /\ Overfull(size(a), last'.k, max_load_factor(a)) => a' = a
          /\ WithinLoad(a')]_vars

C8_Witness ==
    /\ last.op = "rehash"
    /\ Overfull(size(a), last.k, max_load_factor(a))
    /\ size(a) = 2

\* C9: max_load_factor(f) stores f and returns with the set within it,
\* having grown the bucket array if f made the set overfull; elements and
\* iteration order are kept.
C9_MaxLoadFactorHonoured ==
    [][last'.op = "max_load_factor" =>
          /\ max_load_factor(a') = last'.f
          /\ WithinLoad(a')
          /\ Overfull(size(a), bucket_count(a), last'.f)
                 => bucket_count(a') > bucket_count(a)
          /\ size(a') = size(a)
          /\ a'.nodes = a.nodes
          /\ a'.list = a.list]_vars

C9_Witness ==
    /\ last.op = "max_load_factor"
    /\ last.f = <<1, 2>>
    /\ size(a) = 2
    /\ bucket_count(a) = 4

KeySeqs == UNION {[1..n -> Keys] : n \in 0..MaxKey}

\* sets built from an empty one by inserting a sequence of keys
BuiltSets == {InsertEach(construct(n), s) : s \in KeySeqs, n \in InitialBuckets}

\* C11: a == b exactly when the sizes agree and each set's elements all
\* have an equal element in the other, whatever the insertion order, the
\* iteration order, bucket_count() and max_load_factor() of the two sets;
\* == is symmetric and a != b is the negation of a == b.
C11_EqualityByContent ==
    \A b \in BuiltSets :
        /\ operator_eq(a, b) <=>
               /\ size(a) = size(b)
               /\ Elements(a) \subseteq Elements(b)
               /\ Elements(b) \subseteq Elements(a)
        /\ operator_eq(b, a) <=> operator_eq(a, b)
        /\ operator_ne(a, b) <=> ~operator_eq(a, b)

C11_Witness ==
    \E b \in BuiltSets :
        /\ operator_eq(a, b)
        /\ size(a) = 2
        /\ Values(a) # Values(b)
        /\ bucket_count(a) # bucket_count(b)
        /\ max_load_factor(a) # max_load_factor(b)

\* the orders in which the values of s can be handed over
Perms(s) ==
    {p \in [1..Len(s) -> {s[i] : i \in 1..Len(s)}] :
         \A i, j \in 1..Len(s) : p[i] = p[j] => i = j}

\* C12: the elements of the set, inserted in any order into a newly
\* constructed empty set, give a set that compares equal to it, whatever
\* the bucket counts of the two.
C12_RoundTrip ==
    \A p \in Perms(Values(a)), n \in InitialBuckets :
        LET B == insert_range(construct(n), p)
        IN  /\ operator_eq(B, a)
            /\ operator_eq(a, B)

C12_Witness ==
    /\ size(a) = 2
    /\ \E p \in Perms(Values(a)), n \in InitialBuckets :
           LET B == insert_range(construct(n), p)
           IN  /\ Values(B) # Values(a)
               /\ bucket_count(B) # bucket_count(a)
               /\ operator_eq(B, a)

RECURSIVE FirstOccurrences(_, _)
\* the values of s not in seen, each once, in the order they first occur
FirstOccurrences(s, seen) ==
    IF s = <<>> THEN <<>>
    ELSE IF Head(s) \in seen THEN FirstOccurrences(Tail(s), seen)
    ELSE <<Head(s)>> \o FirstOccurrences(Tail(s), seen \cup {Head(s)})

\* the values an insertion call hands over, in order
Inserted(c) == IF c.op = "insert_range" THEN c.vals ELSE <<c.k>>

Designates(t, u, x) ==
    /\ x \in DOMAIN u.nodes
    /\ u.nodes[x] = t.nodes[x]
    /\ find(u, t.nodes[x]) = x

\* calls that remove nothing
KeepingOps == InsertOps \cup {"rehash", "reserve", "max_load_factor"}

\* the call c removes the value v
Erases(c, v) ==
    \/ c.op \in {"erase_key", "erase_pos"} /\ c.k = v
    \/ c.op = "erase_range" /\ \E i \in 1..Len(c.vals) : c.vals[i] = v
    \/ c.op = "clear"

EraseOps == {"erase_key", "erase_pos", "erase_range", "clear"}

\* C14: across insert, rehash, reserve, max_load_factor(f) and the erasure
\* of other elements, the node of an element stays the node of that element
\* with the same value; erasing the element itself, or clear, ends it.
C14_NodeStability ==
    [][\A x \in DOMAIN a.nodes :
          /\ last'.op \in KeepingOps => Designates(a, a', x)
          /\ last'.op \in EraseOps =>
                 IF Erases(last', a.nodes[x])
                 THEN x \notin DOMAIN a'.nodes
                 ELSE Designates(a, a', x)]_vars

C14_Witness ==
    /\ last.op = "max_load_factor"
    /\ bucket_count(a) = 2
    /\ DOMAIN a.nodes = {2}

\* C15: erase(position) takes the element at position, and only it, out of
\* the iteration order, returns the element that followed it (end() after
\* the last one), lowers size() by 1 and leaves the other nodes, their
\* values and bucket_count() as they were.
C15_ErasePosition ==
    [][last'.op = "erase_pos" =>
          LET x == find(a, last'.k)
              i == IndexOf(a.list, x, 1)
          IN  /\ i # 0
              /\ a'.list = SubSeq(a.list, 1, i - 1) \o
                              SubSeq(a.list, i + 1, Len(a.list))
              /\ DOMAIN a'.nodes = DOMAIN a.nodes \ {x}
              /\ \A n \in DOMAIN a'.nodes : a'.nodes[n] = a.nodes[n]
              /\ last'.ret = IF i = Len(a.list) THEN end ELSE a.list[i + 1]
              /\ size(a') = size(a) - 1
              /\ bucket_count(a') = bucket_count(a)]_vars

C15_Witness ==
    /\ last.op = "erase_pos"
    /\ last.ret # end
    /\ begin(a) = last.ret
    /\ size(a) = 1

\* C16: erase(first, last) takes the elements from first up to, not
\* including, last out of the iteration order and returns last; size()
\* drops by the length of the range, the elements before first and from
\* last on keep their nodes, values and order; erase(begin(), end()) leaves
\* the set empty and erase(p, p) leaves it as it was.
C16_EraseRange ==
    [][last'.op = "erase_range" =>
          LET n == Len(last'.vals)
              i == IF last'.ret = end THEN Len(a.list) + 1 - n
                   ELSE IndexOf(a.list, last'.ret, 1) - n
          IN  /\ n = last'.k
              /\ i >= 1
              /\ SubSeq(Values(a), i, i + n - 1) = last'.vals
              /\ a'.list = SubSeq(a.list, 1, i - 1) \o
                              SubSeq(a.list, i + n, Len(a.list))
              /\ \A x \in DOMAIN a'.nodes : a'.nodes[x] = a.nodes[x]
              /\ DOMAIN a'.nodes = {a'.list[j] : j \in 1..Len(a'.list)}
              /\ size(a') = size(a) - n
              /\ n = size(a) => empty(a') /\ begin(a') = end
              /\ n = 0 => a' = a]_vars

C16_Witness ==
    /\ last.op = "erase_range"
    /\ last.k = 1
    /\ last.ret # end
    /\ begin(a) = last.ret
    /\ size(a) = 1

\* C17: clear() leaves size() = 0, empty(), begin() = end(), every bucket
\* empty and no key found; an insert that follows finds the key absent,
\* links it as the only element and leaves the set within its load factor
\* with the element in its own bucket.
C17_Clear ==
    [][last'.op = "clear" =>
          /\ size(a') = 0
          /\ empty(a')
          /\ begin(a') = end
          /\ \A i \in 0..(bucket_count(a') - 1) : bucket_size(a', i) = 0
          /\ \A k \in Keys :
                 /\ find(a', k) = end
                 /\ LET r == insert(a', k)
                    IN  /\ r.second
                        /\ Values(r.t) = <<k>>
                        /\ size(r.t) = 1
                        /\ find(r.t, k) = r.first
                        /\ WithinLoad(r.t)
                        /\ InOwnBuckets(r.t)]_vars

C17_Witness ==
    /\ last.op = "clear"
    /\ empty(a)
    /\ bucket_count(a) = 2
    /\ max_load_factor(a) = <<1, 2>>

\* the place of position p on the way from begin() to end()
PlaceOf(t, p) == IF p = end THEN Len(t.list) + 1 ELSE IndexOf(t.list, p, 1)

\* count, find and equal_range agree with each other and with the
\* elements held
LookupConsistent(t) ==
    \A k \in Keys :
        LET r == equal_range(t, k)
            f == find(t, k)
            c == count(t, k)
        IN  /\ c \in {0, 1}
            /\ (c = 1) <=> (f # end)
            /\ (f # end) <=> (k \in Elements(t))
            /\ f # end => t.nodes[f] = k
            /\ r[1] = f
            /\ r[2] = IF f = end THEN end
                      ELSE Positions(t)[PlaceOf(t, f) + 1]
            /\ PlaceOf(t, r[2]) - PlaceOf(t, r[1]) = c

\* C18 (as stated): count, find and equal_range agree, and after every
\* call count(k) = 1 exactly when the call inserted k, or k was counted
\* before and the call did not erase it.
C18_InsertedNotErased ==
    /\ []LookupConsistent(a)
    /\ [][\A k \in Keys :
             (count(a', k) = 1) <=>
                 \/ InsertsKey(last', k)
                 \/ count(a, k) = 1 /\ ~Erases(last', k)]_vars

\* C18 (amended): count, find and equal_range agree in every state, and
\* after every call that does not replace the contents as a whole
\* count(k) = 1 exactly when the call inserted k, or k was counted before
\* and the call did not erase it.
C18_LookupConsistency ==
    /\ []LookupConsistent(a)
    /\ [][last'.op \notin ReplaceOps =>
             \A k \in Keys :
                 (count(a', k) = 1) <=>
                     \/ InsertsKey(last', k)
                     \/ count(a, k) = 1 /\ ~Erases(last', k)]_vars

C18_Witness ==
    /\ last.op = "erase_pos"
    /\ count(a, last.k) = 0
    /\ equal_range(a, last.k) = <<end, end>>
    /\ \E k \in Keys : count(a, k) = 1 /\ equal_range(a, k) = <<begin(a), end>>

\* C19: the set has at least one bucket in every state, so bucket(key) is
\* an index into the bucket array; a set as constructed, with 0 initial
\* buckets asked for too, is empty with begin() = end().
C19_AtLeastOneBucket ==
    /\ bucket_count(a) >= 1
    /\ \A k \in Keys : bucket(a, k) \in 0..(bucket_count(a) - 1)
    /\ last.op = "construct" => size(a) = 0 /\ begin(a) = end

C19_Witness ==
    /\ last.op = "rehash"
    /\ last.k = 0
    /\ size(a) = 0
    /\ bucket_count(a) = 1

C21_AssignPropagatesAllocator ==
    [][last'.op = "operator=" =>
          get_allocator(a').id =
              IF get_allocator(a).pocca THEN last'.k
              ELSE get_allocator(a).id]_vars

\* the call was a.swap(b) within the documented precondition
SwapAllowed(t, c) ==
    /\ c.op \in {"swap", "swap_assert", "swap_undefined"}
    /\ get_allocator(t).id = c.k \/ get_allocator(t).pocs

\* C23: a.swap(b) with equal allocators, or with an allocator type that
\* propagates on swap, fails no assertion and exchanges the contents; the
\* allocators are exchanged when the type propagates on swap and are left
\* alone otherwise.
C23_SwapPrecondition ==
    [][SwapAllowed(a, last') =>
          /\ last'.op = "swap"
          /\ Values(a') = last'.vals
          /\ get_allocator(a').id =
                 IF get_allocator(a).pocs THEN last'.k
                 ELSE get_allocator(a).id]_vars

C25_HintIgnored ==
    \A v \in Keys :
        \A i \in 1..(Len(a.list) + 1) :
            LET h == insert_hint(a, Positions(a)[i], v)
                r == insert(a, v)
            IN  h.t = r.t /\ h.ret = r.first

C25_Witness ==
    /\ last.op = "insert_hint"
    /\ size(a) = 2
    /\ last.ret = a.list[2]

RECURSIVE InsertOneByOne(_, _)
\* insert(value) for each value of vals in turn
InsertOneByOne(t, vals) ==
    IF vals = <<>> THEN t
    ELSE InsertOneByOne(insert(t, Head(vals)).t, Tail(vals))

\* C26: insert(first, last) ends with the elements, in the order, and the
\* size that insert(value) for each value of the range in turn ends with;
\* size() grows by at most the length of the range and the elements there
\* before keep their nodes.  The range constructor gives what insert(first,
\* last) gives on the set as constructed.
C26_RangeAsSingles ==
    \A vals \in Ranges :
        /\ LET r == insert_range(a, vals)
               s == InsertOneByOne(a, vals)
           IN  /\ Elements(r) = Elements(s)
               /\ Values(r) = Values(s)
               /\ size(r) = size(s)
               /\ size(r) <= size(a) + Len(vals)
               /\ \A x \in DOMAIN a.nodes : Designates(a, r, x)
        /\ last.op = "construct" =>
               LET c == construct_range(vals, bucket_count(a))
                   s == InsertOneByOne(a, vals)
               IN  Values(c) = Values(s) /\ size(c) = size(s)

C26_Witness ==
    /\ last.op = "insert_range"
    /\ Len(last.vals) = 2
    /\ last.vals[1] = last.vals[2]
    /\ size(a) = 2

\* the places (bucket index, place in the chain) at which node x is met
\* in the local traversals
LocalPlaces(t, x) ==
    {<<i, j>> \in (0..(bucket_count(t) - 1)) \X (1..Cardinality(DOMAIN t.nodes)) :
         j <= bucket_size(t, i) /\ local_range(t, i)[j] = x}

RECURSIVE SumBucketSizes(_, _)
SumBucketSizes(t, i) ==
    IF i = bucket_count(t) THEN 0
    ELSE bucket_size(t, i) + SumBucketSizes(t, i + 1)

\* C28: every live element is met once from begin() to end() and once in
\* the local traversals, in the bucket bucket(element), which is its hash
\* modulo bucket_count(); nothing else is met; the traversal length and the
\* sum of the bucket sizes are size().
C28_Structure ==
    /\ \A x \in DOMAIN a.nodes :
           /\ Cardinality({i \in 1..Len(a.list) : a.list[i] = x}) = 1
           /\ Cardinality(LocalPlaces(a, x)) = 1
           /\ \A p \in LocalPlaces(a, x) :
                  /\ p[1] = bucket(a, a.nodes[x])
                  /\ p[1] = Hash(a.nodes[x]) % bucket_count(a)
    /\ \A i \in 1..Len(a.list) : a.list[i] \in DOMAIN a.nodes
    /\ \A i \in 0..(bucket_count(a) - 1) :
           \A j \in 1..bucket_size(a, i) :
               local_range(a, i)[j] \in DOMAIN a.nodes
    /\ Len(a.list) = size(a)
    /\ Cardinality(DOMAIN a.nodes) = size(a)
    /\ SumBucketSizes(a, 0) = size(a)

C28_Witness ==
    /\ last.op = "erase_pos"
    /\ size(a) = 1
    /\ bucket_count(a) = 4
    /\ bucket_size(a, bucket(a, Values(a)[1])) = 1

RECURSIVE NoGrowth(_, _)
\* inserting the values of vals into t one by one, no insertion changes
\* bucket_count()
NoGrowth(t, vals) ==
    \/ vals = <<>>
    \/ LET u == HT_insertIfMissing(t, Head(vals)).t
       IN  bucket_count(u) = bucket_count(t) /\ NoGrowth(u, Tail(vals))

\* C30: insert(first, last) of a range that is not empty leaves
\* bucket_count() at what reserve(size() + length) makes it, and has it
\* there before the first value is inserted: no insertion of the loop
\* changes it.  An empty range changes nothing.
C30_RangeReservesFirst ==
    [][last'.op = "insert_range" =>
          LET d == Len(last'.vals)
              r == reserve(a, size(a) + d)
          IN  IF d = 0 THEN a' = a
              ELSE /\ bucket_count(a') = bucket_count(r)
                   /\ NoGrowth(r, last'.vals)]_vars

C30_Witness ==
    /\ last.op = "insert_range"
    /\ Len(last.vals) = 2
    /\ last.vals[1] = last.vals[2]
    /\ size(a) = 1
    /\ bucket_count(a) = 8

ErasePosNames == {"erase_pos", "erase_pos_assert", "erase_pos_undefined"}

EraseRangeNames ==
    {"erase_range", "erase_range_assert", "erase_range_undefined"}

\* what erase(first, last) has done when it stops, for first at place i
\* and last at place j: j - i removals and last returned, or, with last
\* not ahead of first, everything from first on removed and first at end()
RangeRun(c) ==
    LET i == c.f[1]
        j == c.f[2]
    IN  IF i <= j
        THEN /\ c.op = "erase_range"
             /\ c.k = j - i
             /\ c.ret = Positions(a)[j]
             /\ Values(a') = SubSeq(Values(a), 1, i - 1) \o
                               SubSeq(Values(a), j, Len(a.list))
        ELSE /\ c.op # "erase_range"
             /\ c.k = Len(a.list) - i + 1
             /\ c.ret = end
             /\ Values(a') = SubSeq(Values(a), 1, i - 1)

\* C29 (as stated): erase(first, last) stops after distance(first, last)
\* removals when first is at or before last; otherwise it removes the
\* elements from first on and then fails the assertion of erase(position);
\* erase(end()) fails that assertion with the set untouched.
C29_StopsOrAsserts ==
    [][/\ last'.op \in EraseRangeNames =>
             /\ RangeRun(last')
             /\ last'.op \in {"erase_range", "erase_range_assert"}
       /\ (last'.op \in ErasePosNames /\ last'.f[1] = Len(a.list) + 1) =>
             /\ last'.op = "erase_pos_assert"
             /\ a' = a]_vars

\* how a call that reaches erase(end()) ends in the build
AtEnd(build) == IF build \in {"safe", "debug"} THEN "_assert" ELSE "_undefined"

\* C29 (amended): the same, with the assertion failing in the builds that
\* compile BSLS_ASSERT in; in a build without it the call that reaches
\* erase(end()) has undefined behaviour.
C29_StopsOrAssertsWhereCompiled ==
    [][/\ last'.op \in EraseRangeNames =>
             /\ RangeRun(last')
             /\ last'.op \in {"erase_range",
                               "erase_range" \o AtEnd(last'.vals[1])}
       /\ (last'.op \in ErasePosNames /\ last'.f[1] = Len(a.list) + 1) =>
             /\ last'.op = "erase_pos" \o AtEnd(last'.vals[1])
             /\ a' = a]_vars

C29_Witness ==
    /\ last.op = "erase_range_assert"
    /\ last.f = <<2, 1>>
    /\ last.k = 1
    /\ last.ret = end
    /\ size(a) = 1
====
